---- MODULE Spec2Model ----
(***************************************************************************)
(* Model of nodes/basic_view/viewer_skin.py: the "Skin Viewer Draw" node.  *)
(*                                                                         *)
(* The state is the node (its four properties and the data on its four     *)
(* input sockets) and the part of the host's data the node touches: the    *)
(* object registry bpy.data.objects, the mesh registry bpy.data.meshes and *)
(* the objects linked to the scene.  Datablocks are looked up by name; a   *)
(* name is modelled as <<base, k>>, k = 0 being the plain name and k > 0   *)
(* the host's ".00k" suffix given to a new datablock whose name is taken.  *)
(*                                                                         *)
(* Units: matrix entries are integers in units of 1e-6, radii integers in  *)
(* units of 0.01.                                                          *)
(*                                                                         *)
(* Scope of the model: the 'vertices' and 'edges' sockets are linked and   *)
(* carry at least one item (otherwise sv_get(default=[])[0] raises before  *)
(* anything is touched), basemesh_name is not the placeholder's name       *)
(* 'empty_skin_mesh_sv', and the host holds no datablock of the node's     *)
(* names before the first call.                                            *)
(***************************************************************************)
EXTENDS Integers, Sequences, FiniteSets, TLC

VARIABLES
    activate,        \* SkinViewerNode.activate
    live_updates,    \* SkinViewerNode.live_updates
    basemesh_name,   \* SkinViewerNode.basemesh_name
    general_radius,  \* SkinViewerNode.general_radius
    inputs,          \* the data on the sockets 'vertices', 'edges', 'matrix', 'radii'
    objects,         \* bpy.data.objects: name -> [data, modifiers, matrix_local]
    meshes,          \* bpy.data.meshes: name -> [vertices, edges, skin_vertices]
    scene,           \* scene.objects: the names of the linked objects
    created,         \* the datablocks the most recent process() call created
    last_exit,       \* where the most recent process() call returned
    rerun            \* the most recent call came with the node as the call before left it

vars == <<activate, live_updates, basemesh_name, general_radius, inputs,
          objects, meshes, scene, created, last_exit, rerun>>

----------------------------------------------------------------------------
(* Bounds of the model *)

\* the longest vertex list on the 'vertices' socket
MaxVerts == 2

----------------------------------------------------------------------------
(* Sequences *)

RECURSIVE chain(_)
\* itertools.chain.from_iterable: the concatenation of a list of tuples
chain(ss) == IF ss = <<>> THEN <<>> ELSE Head(ss) \o chain(Tail(ss))

\* zip(a, b) as a list of pairs, cut to the shorter argument
zip(a, b) ==
    LET n == IF Len(a) <= Len(b) THEN Len(a) ELSE Len(b)
    IN  [i \in 1..n |-> <<a[i], b[i]>>]

\* itertools.repeat(x, n) as a list
repeat(x, n) == [i \in 1..n |-> x]

\* the flat array f cut into tuples of k: what foreach_set writes to each element
groups(f, k) ==
    [i \in 1..(Len(f) \div k) |-> [j \in 1..k |-> f[(i - 1) * k + j]]]

\* the function f without the key k
without(f, k) == [x \in (DOMAIN f) \ {k} |-> f[x]]

\* Op of x, the statement after the one that left x: x is computed once
then(x, Op(_)) == CHOOSE r \in {Op(v) : v \in {x}} : TRUE

----------------------------------------------------------------------------
(* matrix_sanitizer *)

\* 1.6e-5
threshold == 16

coord_strip(c) == IF (0 - threshold <= c) /\ (c <= threshold) THEN 0 ELSE c

san(v) == [j \in 1..Len(v) |-> coord_strip(v[j])]

matrix_sanitizer(matrix) == [i \in 1..Len(matrix) |-> san(matrix[i])]

\* Matrix.Identity(4)
Identity4 == [i \in 1..4 |-> [j \in 1..4 |-> IF i = j THEN 1000000 ELSE 0]]

----------------------------------------------------------------------------
(* The host's registries *)

placeholder == "empty_skin_mesh_sv"

\* the datablock a registry finds under the plain name
Key(name) == <<name, 0>>

\* the name the host gives a new datablock asked to be called name: the
\* name itself when it is free, otherwise the first free suffix
unique_name(keys, name) ==
    LET k == CHOOSE k \in 0..Cardinality(keys) :
                 /\ <<name, k>> \notin keys
                 /\ \A j \in 0..(k - 1) : <<name, j>> \in keys
    IN  <<name, k>>

\* a mesh datablock just made by meshes.new: no geometry, no skin layer
empty_mesh == [vertices |-> <<>>, edges |-> <<>>, skin_vertices |-> <<>>]

\* the radius of a skin vertex the node has not written: the host's default
unset == <<>>

\* meshes.new(name); the new mesh is found under unique_name(DOMAIN h.meshes, name)
meshes_new(h, name) ==
    LET key == unique_name(DOMAIN h.meshes, name)
    IN  [h EXCEPT !.meshes = (key :> empty_mesh) @@ h.meshes,
                  !.created = h.created \cup {<<"mesh", key>>}]

\* meshes.remove(meshes[key]): the host refuses to remove a mesh in use
meshes_remove(h, key) ==
    IF \E o \in DOMAIN h.objects : h.objects[o].data = key
    THEN [h EXCEPT !.raised = TRUE]
    ELSE [h EXCEPT !.meshes = without(h.meshes, key)]

\* objects.new(name, mesh)
objects_new(h, name, mesh) ==
    LET key == unique_name(DOMAIN h.objects, name)
    IN  [h EXCEPT !.objects = (key :> [data |-> mesh, modifiers |-> <<>>,
                                       matrix_local |-> Identity4]) @@ h.objects,
                  !.created = h.created \cup {<<"object", key>>}]

\* scene.objects.link(obj): the host refuses an object already in the scene
scene_link(h, obj) ==
    IF obj \in h.scene
    THEN [h EXCEPT !.raised = TRUE]
    ELSE [h EXCEPT !.scene = h.scene \cup {obj}]

----------------------------------------------------------------------------
(* The host's meshes and modifiers *)

\* mesh.vertices.add(n) and mesh.edges.add(n): n new elements after the
\* existing ones; every skin layer of the mesh grows with the vertices
vertices_add(m, n) ==
    [m EXCEPT !.vertices = @ \o repeat(<<0, 0, 0>>, n),
              !.skin_vertices = [l \in 1..Len(@) |-> @[l] \o repeat(unset, n)]]

edges_add(m, n) == [m EXCEPT !.edges = @ \o repeat(<<0, 0>>, n)]

\* foreach_set(attr, flat) on a collection of elems whose attr has k
\* components: the host accepts only an array of exactly k * len(elems)
foreach_fits(elems, k, flat) == Len(flat) = k * Len(elems)

\* 'sv_skin' in obj.modifiers
has_modifier(mods, name) == \E i \in 1..Len(mods) : mods[i].name = Key(name)

\* obj.modifiers.remove(obj.modifiers[name])
modifiers_remove(mods, name) == SelectSeq(mods, LAMBDA m : m.name # Key(name))

\* the skin layer the host gives the object's mesh when a skin modifier is
\* added and the mesh has none: one radius per vertex, at the host's default
ensure_skin(m) ==
    IF m.skin_vertices # <<>> THEN m
    ELSE [m EXCEPT !.skin_vertices = <<repeat(unset, Len(m.vertices))>>]

\* obj.modifiers.new(type=type, name=name)
modifiers_new(h, obj, type, name) ==
    LET mods == h.objects[obj].modifiers
        key == unique_name({mods[i].name : i \in 1..Len(mods)}, name)
        mesh == h.objects[obj].data
    IN  [h EXCEPT !.objects[obj].modifiers = Append(mods, [name |-> key, type |-> type]),
                  !.meshes[mesh] = IF type = "SKIN" THEN ensure_skin(@) ELSE @,
                  !.created = h.created \cup {<<"modifier", obj, key>>}]

----------------------------------------------------------------------------
(* assign_empty_mesh, force_pydata, make_bmesh_geometry *)

\* assign_empty_mesh without the lookup: a new placeholder on every use
assign_empty_mesh_anew(h) == meshes_new(h, placeholder)

\* assign_empty_mesh(): the placeholder mesh, made on first use; the mesh
\* it returns is the one found under Key(placeholder)
assign_empty_mesh(h) ==
    IF Key(placeholder) \in DOMAIN h.meshes THEN h ELSE meshes_new(h, placeholder)

\* force_pydata(mesh, verts, edges)
force_pydata(h, mesh, verts, edges) ==
    LET f_v == chain(verts)
        f_e == chain(edges)
        set_co(m1) ==
            IF foreach_fits(m1.vertices, 3, f_v)
            THEN [m |-> [m1 EXCEPT !.vertices = groups(f_v, 3)], raised |-> FALSE]
            ELSE [m |-> m1, raised |-> TRUE]
        set_edges(m3) ==
            IF foreach_fits(m3.edges, 2, f_e)
            THEN [m |-> [m3 EXCEPT !.edges = groups(f_e, 2)], raised |-> FALSE]
            ELSE [m |-> m3, raised |-> TRUE]
        add_edges(r) ==
            IF r.raised THEN r ELSE then(edges_add(r.m, Len(edges)), set_edges)
        store(r) == [h EXCEPT !.meshes[mesh] = r.m, !.raised = r.raised]
    IN  then(then(then(vertices_add(h.meshes[mesh], Len(verts)), set_co), add_edges), store)

\* remove_uncoupled without the removal: the old mesh keeps the name
remove_uncoupled_never(h, name) == h

\* make_bmesh_geometry, "if name in meshes: meshes.remove(meshes[name])"
remove_uncoupled(h, name) ==
    IF Key(name) \in DOMAIN h.meshes THEN meshes_remove(h, Key(name)) ELSE h

\* rebuild_mesh without the new mesh: the object keeps the mesh it has
rebuild_mesh_reusing(h, name) == [h EXCEPT !.obj = Key(name)]

\* make_bmesh_geometry, the branch "if name in objects": the object gets
\* the placeholder, its mesh is removed and a new one of the same name made
rebuild_mesh(h, name) ==
    LET obj == Key(name)
        uncouple(h1) == [h1 EXCEPT !.objects[obj].data = Key(placeholder)]
        remove(h2) == remove_uncoupled(h2, name)
        renew(h3) ==
            IF h3.raised THEN h3
            ELSE [meshes_new(h3, name) EXCEPT
                     !.objects[obj].data = unique_name(DOMAIN h3.meshes, name)]
        keep(h4) == [h4 EXCEPT !.obj = obj]
    IN  then(then(then(then(assign_empty_mesh(h), uncouple), remove), renew), keep)

\* make_bmesh_geometry, the else branch: a new mesh, a new object, linked
first_run(h, name) ==
    LET mesh == unique_name(DOMAIN h.meshes, name)
        obj == unique_name(DOMAIN h.objects, name)
        new_object(h1) == objects_new(h1, name, mesh)
        link(h2) == [scene_link(h2, obj) EXCEPT !.obj = obj]
    IN  then(then(meshes_new(h, name), new_object), link)

\* fresh_mesh without the lookup: a new object on every call
fresh_mesh_always_new(h, name) == first_run(h, name)

\* make_bmesh_geometry, "if name in objects: ... else: ..."
fresh_mesh(h, name) ==
    IF Key(name) \in DOMAIN h.objects THEN rebuild_mesh(h, name) ELSE first_run(h, name)

\* update_modifier without the removal of the modifier present
update_modifier_keeping(h, obj) == modifiers_new(h, obj, "SKIN", "sv_skin")

\* make_bmesh_geometry, "if node.live_updates: ..."
update_modifier(h, obj) ==
    LET add(h1) == modifiers_new(h1, obj, "SKIN", "sv_skin")
    IN  IF has_modifier(h.objects[obj].modifiers, "sv_skin")
        THEN then([h EXCEPT !.objects[obj].modifiers = modifiers_remove(@, "sv_skin")], add)
        ELSE add(h)

\* make_bmesh_geometry, "if matrix: ... else: ..."
set_matrix(h, obj, matrix) ==
    IF matrix # <<>>
    THEN [h EXCEPT !.objects[obj].matrix_local = matrix_sanitizer(matrix)]
    ELSE [h EXCEPT !.objects[obj].matrix_local = Identity4]

\* make_bmesh_geometry(node, context, name, geometry); a host call that
\* raises ends the call there
make_bmesh_geometry(live, h, name, geometry) ==
    LET verts == geometry[1]
        edges == geometry[2]
        matrix == geometry[3]
        build(h1) ==
            IF h1.raised THEN h1
            ELSE force_pydata(h1, h1.objects[h1.obj].data, verts, edges)
        modify(h2) ==
            IF h2.raised \/ ~live THEN h2 ELSE update_modifier(h2, h2.obj)
        place(h3) ==
            IF h3.raised THEN h3 ELSE set_matrix(h3, h3.obj, matrix)
    IN  then(then(then(fresh_mesh(h, name), build), modify), place)

----------------------------------------------------------------------------
(* SkinViewerNode *)

\* socket.sv_get(default): the linked socket's data, else the default
sv_get(socket, default) == IF socket.is_linked THEN socket.data ELSE default

\* "only interested in the first": the [0] of get_geometry_from_sockets
\* and of the radii
first(items) == items[1]

\* SkinViewerNode.get_geometry_from_sockets
get_geometry_from_sockets(i) ==
    <<first(sv_get(i.vertices, <<>>)),
      first(sv_get(i.edges, <<>>)),
      first(sv_get(i.matrix, <<<<>>>>))>>

\* radii_of counting the edges, geometry[1] in the source's indices,
\* where it should count the vertices
radii_of_edges(i, radius, geometry) ==
    IF i.radii.is_linked
    THEN i.radii.data[1]
    ELSE repeat(radius, Len(geometry[2]))

\* process, "if i['radii'].is_linked: ... else: ..."
radii_of(i, radius, geometry) ==
    IF i.radii.is_linked
    THEN first(i.radii.data)
    ELSE repeat(radius, Len(geometry[1]))

\* lengths_match letting a shorter list of radii through
lengths_match_or_fewer(radii, geometry) == Len(radii) <= Len(geometry[1])

\* process, "if len(radii) == len(geometry[0])"
lengths_match(radii, geometry) == Len(radii) = Len(geometry[1])

\* process, "f_r = list(itertools.chain(*zip(radii, radii)))"
flat_radii(radii) == chain(zip(radii, radii))

\* process, the radius write
\* obj.data.skin_vertices[0].data.foreach_set('radius', f_r)
write_radii(h, obj, f_r) ==
    LET mesh == h.objects[obj].data
        layers == h.meshes[mesh].skin_vertices
    IN  IF layers = <<>> \/ ~foreach_fits(layers[1], 2, f_r)
        THEN [h EXCEPT !.raised = TRUE]
        ELSE [h EXCEPT !.meshes[mesh].skin_vertices[1] = groups(f_r, 2)]

\* is_active without the test of activate
is_active_always(node) == TRUE

\* process, "if not self.activate: return"
is_active(node) == node.activate

\* SkinViewerNode.process on the node and the host h: the host it leaves
\* and the place it returned at
process_from(node, h) ==
    LET geometry == get_geometry_from_sockets(node.inputs)
        obj == Key(node.basemesh_name)
        radii == radii_of(node.inputs, node.general_radius, geometry)
        written(h2) ==
            [h |-> h2, exit |-> IF h2.raised THEN "raised" ELSE "written"]
        assign_radii(h1) ==
            IF h1.raised THEN [h |-> h1, exit |-> "raised"]
            ELSE IF ~node.live_updates THEN [h |-> h1, exit |-> "not_live"]
            ELSE IF ~lengths_match(radii, geometry) THEN [h |-> h1, exit |-> "skipped"]
            ELSE then(write_radii(h1, obj, flat_radii(radii)), written)
    IN  IF ~is_active(node) THEN [h |-> h, exit |-> "inactive"]
        ELSE then(make_bmesh_geometry(node.live_updates, h, node.basemesh_name, geometry),
                  assign_radii)

\* the node as process() reads it
node_now ==
    [activate |-> activate, live_updates |-> live_updates,
     basemesh_name |-> basemesh_name, general_radius |-> general_radius,
     inputs |-> inputs]

\* the host as a call starts on it
host_now ==
    [objects |-> objects, meshes |-> meshes, scene |-> scene,
     created |-> {}, raised |-> FALSE, obj |-> <<>>]

----------------------------------------------------------------------------
(* The values the node's properties and sockets take *)

BaseNames == {"Alpha", "Beta"}

\* general_radius: its minimum 0.01 and its default 0.25
RadiusValues == {1, 25}

\* n vertices, all different
ramp(n) == [i \in 1..n |-> <<i, 0 - i, 1>>]

\* the edges of the path through n vertices
path(n) == [i \in 1..(n - 1) |-> <<i - 1, i>>]

\* n radii, all different
radii_ramp(n) == [i \in 1..n |-> 10 * i]

\* a matrix with values around the threshold, and a scaled one
MatWander ==
    << <<1000000, 16, -16, 0>>,
       <<17, 1000000, -17, 0>>,
       <<0, 0, 1000000, 5>>,
       <<0, 0, 0, 1000000>> >>

MatScale == [i \in 1..4 |-> [j \in 1..4 |-> IF i = j THEN 2000000 ELSE 0]]

linked(data) == [is_linked |-> TRUE, data |-> data]

unlinked == [is_linked |-> FALSE, data |-> <<>>]

\* what one evaluation of the upstream nodes leaves on the sockets: a path
\* of n vertices and r radii (r < 0: the 'radii' socket is not linked).
\* For odd n the upstream nodes make several objects: every list carries a
\* later item, different from the first, and the 'matrix' socket is linked.
upstream(n, r) ==
    LET several == (n % 2 = 1)
        items(first_item, later) ==
            IF several THEN <<first_item, later>> ELSE <<first_item>>
    IN  [vertices |-> linked(items(ramp(n), ramp(n + 1))),
         edges |-> linked(items(path(n), path(n + 2))),
         matrix |-> IF several THEN linked(items(MatWander, MatScale)) ELSE unlinked,
         radii |-> IF r < 0 THEN unlinked
                   ELSE linked(items(radii_ramp(r), radii_ramp(r + 1)))]

Upstream == {upstream(n, r) : n \in 0..MaxVerts, r \in {-1} \cup 1..MaxVerts}

----------------------------------------------------------------------------
(* The node's life: the host calls process() when a property changes (each *)
(* property is declared with update=updateNode), when the data on a socket *)
(* changes, and when the tree is evaluated again with nothing changed.     *)

Init ==
    /\ activate = TRUE
    /\ live_updates = FALSE
    /\ basemesh_name = "Alpha"
    /\ general_radius = 25
    /\ inputs \in Upstream
    /\ objects = <<>>
    /\ meshes = <<>>
    /\ scene = {}
    /\ created = {}
    /\ last_exit = "none"
    /\ rerun = FALSE

\* process() on the node as changed to node
run(node) ==
    \E r \in {process_from(node, host_now)} :
        /\ activate' = node.activate
        /\ live_updates' = node.live_updates
        /\ basemesh_name' = node.basemesh_name
        /\ general_radius' = node.general_radius
        /\ inputs' = node.inputs
        /\ objects' = r.h.objects
        /\ meshes' = r.h.meshes
        /\ scene' = r.h.scene
        /\ created' = r.h.created
        /\ last_exit' = r.exit
        /\ rerun' = (last_exit # "none" /\ node = node_now)

\* SkinViewerNode.process, the tree evaluated again with nothing changed
process == run(node_now)

\* the update hook of activate
set_activate ==
    \E b \in BOOLEAN \ {activate} : run([node_now EXCEPT !.activate = b])

\* the update hook of live_updates
set_live_updates ==
    \E b \in BOOLEAN \ {live_updates} : run([node_now EXCEPT !.live_updates = b])

\* the update hook of basemesh_name
set_basemesh_name ==
    \E n \in BaseNames \ {basemesh_name} : run([node_now EXCEPT !.basemesh_name = n])

\* the update hook of general_radius
set_general_radius ==
    \E r \in RadiusValues \ {general_radius} : run([node_now EXCEPT !.general_radius = r])

\* the upstream nodes are evaluated again and leave new data on the sockets
update_sockets ==
    \E i \in Upstream \ {inputs} : run([node_now EXCEPT !.inputs = i])

Next ==
    \/ process
    \/ set_activate
    \/ set_live_updates
    \/ set_basemesh_name
    \/ set_general_radius
    \/ update_sockets

Spec == Init /\ [][Next]_vars

----------------------------------------------------------------------------
(* What the claims speak of *)

\* the object and the mesh found under basemesh_name
the_object == Key(basemesh_name)

\* the most recent call ran with activate = True
ran_active == last_exit \in {"not_live", "skipped", "written", "raised"}

\* the most recent call ran with activate = True and live_updates = True
ran_live == last_exit # "none" /\ activate /\ live_updates

\* the first item of each socket in the most recent call
first_vertices == inputs.vertices.data[1]
first_edges == inputs.edges.data[1]
first_radii == inputs.radii.data[1]

\* the local matrix the most recent call asks for
wanted_matrix ==
    IF inputs.matrix.is_linked
    THEN [i \in 1..4 |-> [j \in 1..4 |->
            LET c == inputs.matrix.data[1][i][j]
            IN  IF c < -16 \/ c > 16 THEN c ELSE 0]]
    ELSE [i \in 1..4 |-> [j \in 1..4 |-> IF i = j THEN 1000000 ELSE 0]]

\* the object under basemesh_name exists together with its mesh
object_stands ==
    /\ the_object \in DOMAIN objects
    /\ objects[the_object].data \in DOMAIN meshes

the_mesh == meshes[objects[the_object].data]

\* the object carries the one modifier 'sv_skin', of type SKIN
one_skin_modifier ==
    objects[the_object].modifiers = <<[name |-> <<"sv_skin", 0>>, type |-> "SKIN"]>>

\* the mesh holds the geometry of the first items, and the object the matrix
geometry_done ==
    /\ the_mesh.vertices = first_vertices
    /\ the_mesh.edges = first_edges
    /\ objects[the_object].matrix_local = wanted_matrix

----------------------------------------------------------------------------
(* C1 *)

\* C1: after a process() call with activate = True the object registry
\* holds an object named basemesh_name whose mesh, made in that call, holds
\* exactly the vertices and the edges of the first item of the 'vertices'
\* and 'edges' inputs of that call: nothing of earlier calls, nothing of
\* the later items.
C1_MeshIsFirstItems ==
    ran_active =>
        /\ object_stands
        /\ <<"mesh", objects[the_object].data>> \in created
        /\ the_mesh.vertices = first_vertices
        /\ the_mesh.edges = first_edges

\* a call on an object an earlier call made, with later items on the sockets
C1_Witness ==
    /\ ran_active
    /\ <<"object", the_object>> \notin created
    /\ Len(inputs.vertices.data) = 2
    /\ Len(inputs.edges.data) = 2
    /\ object_stands
    /\ the_mesh.vertices = first_vertices
    /\ first_vertices # <<>>
    /\ inputs.vertices.data[2] # first_vertices

----------------------------------------------------------------------------
(* C2 *)

\* C2: a process() call with activate = False changes nothing of the
\* host: objects, meshes, modifiers, matrices, radii and the scene stay as
\* they are and nothing is created, whatever the inputs and live_updates.
C2_InactiveChangesNothing ==
    [][(~activate') =>
          /\ objects' = objects
          /\ meshes' = meshes
          /\ scene' = scene
          /\ created' = {}
          /\ last_exit' = "inactive"]_vars

\* an inactive call with live_updates on, the object's mesh holding other
\* vertices than the sockets
C2_Witness ==
    /\ last_exit = "inactive"
    /\ live_updates
    /\ object_stands
    /\ the_mesh.vertices # first_vertices
    /\ objects[the_object].modifiers = <<>>

----------------------------------------------------------------------------
(* C3 *)

\* C3: a call with activate and live_updates True whose 'radii' input is
\* linked with a first item of another length than the vertex list returns
\* without an error and without writing a radius, the mesh, the modifier
\* and the matrix of that call being complete; and a live call skips the
\* radius write in no other case.
C3_MismatchSkipsRadii ==
    ran_live =>
        LET mismatch == inputs.radii.is_linked /\ Len(first_radii) # Len(first_vertices)
        IN  /\ last_exit \in {"skipped", "written"}
            /\ (last_exit = "skipped") <=> mismatch
            /\ mismatch =>
                  /\ object_stands
                  /\ geometry_done
                  /\ one_skin_modifier
                  /\ the_mesh.skin_vertices = <<[i \in 1..Len(first_vertices) |-> <<>>]>>

\* a live call with more radii than vertices, and one with fewer
C3_Witness ==
    /\ ran_live
    /\ last_exit = "skipped"
    /\ Len(first_radii) < Len(first_vertices)
    /\ \E o \in DOMAIN objects :
          /\ o # the_object
          /\ meshes[objects[o].data].skin_vertices = <<<<<<>>>>>>

----------------------------------------------------------------------------
(* C4 *)

\* C4 as stated: with live_updates = True, after any process() call the
\* object named basemesh_name carries exactly one modifier, 'sv_skin' of
\* type SKIN, created during that call.
C4_AsStated ==
    (last_exit # "none" /\ live_updates) =>
        /\ object_stands
        /\ one_skin_modifier
        /\ <<"modifier", the_object, <<"sv_skin", 0>>>> \in created

\* C4, amended: with activate = True and live_updates = True, after any
\* process() call the object named basemesh_name carries exactly one
\* modifier, 'sv_skin' of type SKIN, created during that call.
C4_OneSkinModifier ==
    ran_live =>
        /\ object_stands
        /\ one_skin_modifier
        /\ <<"modifier", the_object, <<"sv_skin", 0>>>> \in created

\* a live call on an object an earlier call made, run twice in a row
C4_Witness ==
    /\ ran_live
    /\ rerun
    /\ <<"object", the_object>> \notin created
    /\ object_stands
    /\ one_skin_modifier

----------------------------------------------------------------------------
(* C5 *)

\* C5: a call with activate and live_updates True and 'radii' not linked
\* writes general_radius to both radius components of every vertex of the
\* rebuilt mesh, and is never skipped; with 'radii' linked and a first
\* item as long as the vertex list, vertex i gets radii[i] in both.
C5_RadiiWritten ==
    ran_live =>
        /\ (~inputs.radii.is_linked) =>
              /\ last_exit = "written"
              /\ object_stands
              /\ Len(the_mesh.vertices) = Len(first_vertices)
              /\ the_mesh.skin_vertices =
                    <<[i \in 1..Len(the_mesh.vertices) |-> <<general_radius, general_radius>>]>>
        /\ (inputs.radii.is_linked /\ Len(first_radii) = Len(first_vertices)) =>
              /\ last_exit = "written"
              /\ object_stands
              /\ the_mesh.skin_vertices =
                    <<[i \in 1..Len(first_vertices) |-> <<first_radii[i], first_radii[i]>>]>>

\* a live call that wrote the radii of a linked list of two, another
\* object's mesh holding a general radius
C5_Witness ==
    /\ ran_live
    /\ inputs.radii.is_linked
    /\ Len(first_radii) = 2
    /\ Len(first_vertices) = 2
    /\ last_exit = "written"
    /\ \E o \in DOMAIN objects, g \in RadiusValues :
          /\ o # the_object
          /\ meshes[objects[o].data].skin_vertices = <<<<<<g, g>>, <<g, g>>>>>>

----------------------------------------------------------------------------
(* C6 *)

\* C6: the mesh registry holds no mesh but one under the plain name of
\* each object the node made and at most the one placeholder
\* 'empty_skin_mesh_sv' (no suffixed copy of either), every object's data
\* is the mesh of the object's own name, and so the meshes number at most
\* the names used plus one, however many calls were made.
C6_NoMeshLeak ==
    /\ \A m \in DOMAIN meshes :
          /\ m[2] = 0
          /\ m[1] = "empty_skin_mesh_sv" \/ m \in DOMAIN objects
    /\ \A o \in DOMAIN objects :
          /\ objects[o].data = o
          /\ o \in DOMAIN meshes
    /\ Cardinality(DOMAIN meshes) <= Cardinality(DOMAIN objects) + 1

\* both names used, each rebuilt at least once, the same call run again
C6_Witness ==
    /\ Cardinality(DOMAIN objects) = 2
    /\ <<"empty_skin_mesh_sv", 0>> \in DOMAIN meshes
    /\ Cardinality(DOMAIN meshes) = 3
    /\ rerun
    /\ ran_active

----------------------------------------------------------------------------
(* C7 *)

----------------------------------------------------------------------------
(* C8 *)

\* the node as it stands
node_state == <<activate, live_updates, basemesh_name, general_radius, inputs>>

\* C8 as stated: a process() call that follows a call with the same
\* property values and the same inputs leaves the observable scene as the
\* call before left it, the set of mesh names included.
C8_AsStated ==
    [][(last_exit # "none" /\ node_state' = node_state) =>
          <<objects', meshes', scene'>> = <<objects, meshes, scene>>]_vars

\* C8, amended: a process() call that follows a call with the same
\* property values and the same inputs leaves the observable scene as the
\* call before left it, but for the placeholder mesh 'empty_skin_mesh_sv',
\* which the second call may add to the mesh registry.
C8_IdempotentButPlaceholder ==
    [][(last_exit # "none" /\ node_state' = node_state) =>
          /\ objects' = objects
          /\ scene' = scene
          /\ (DOMAIN meshes') \ {<<"empty_skin_mesh_sv", 0>>}
                = (DOMAIN meshes) \ {<<"empty_skin_mesh_sv", 0>>}
          /\ \A m \in DOMAIN meshes : meshes'[m] = meshes[m]
      ]_vars

\* the second of two live calls in a row, the one that adds the placeholder
C8_Witness ==
    /\ rerun
    /\ ran_live
    /\ last_exit = "written"
    /\ <<"mesh", <<"empty_skin_mesh_sv", 0>>>> \in created
    /\ first_vertices # <<>>

====
